---- MODULE Spec2Model ----
(***************************************************************************)
(* Model of cmd/asset-syncer/utils.go: the concurrent file importer        *)
(* (fileImporter.fetchFiles / importWorker / fetchAndImportIcon /          *)
(* fetchAndImportFilesWithCustomDirectory), the registry checksum          *)
(* (OCIRegistry.Checksum), the chart listing (HelmRepo.Charts), the        *)
(* tarball extraction and one file-import task with its tarball fetches.   *)
(***************************************************************************)
EXTENDS Integers, Sequences, FiniteSets, TLC

(***************************************************************************)
(* Bounds of the model.                                                    *)
(***************************************************************************)
\* Size of the worker pool and capacity of both channels.  fetchFiles sets
\* numWorkers := 10 (utils.go:605); the model scales the pool and the two
\* channel capacities down together, as the code derives all three from it.
numWorkers == 2
\* Longest list of charts handed to fetchFiles.
MaxCharts == 2
\* Longest ChartVersions list of one chart.
MaxVersions == 2
\* Number of successive fetchFiles runs (syncs) over the same index.
MaxRuns == 2
\* Number of task errors (network, decode, persistence) the environment
\* injects over all runs.
MaxFaults == 1

(***************************************************************************)
(* Input data.                                                             *)
(***************************************************************************)
\* Name of the repository (models.Repo.Name).
repoName == "r"
\* Chart names and version strings of the index; "-" can occur in both.
Names == {"a", "a-1", "b"}
VersionStrings == {"1", "1-1"}
\* A digest left in the store by an earlier sync of different content.
StaleDigest == "sha:stale"

VARIABLES
  charts,          \* argument of fetchFiles: the list of models.Chart
  store,           \* persisted ChartFiles rows, each [ID, Digest]
  iconStore,       \* chart IDs whose icon has been written by updateIcon
  pc,              \* position of the fetchFiles goroutine
  i,               \* index of the producer loop in progress
  toEnqueue,       \* local slice of deferred (older version) jobs
  iconJobs,        \* buffer of the iconJobs channel
  iconsClosed,     \* iconJobs has been closed
  chartFilesJobs,  \* buffer of the chartFilesJobs channel
  filesClosed,     \* chartFilesJobs has been closed
  wpc,             \* position of every importWorker goroutine
  wjob,            \* the chart / job a worker is processing
  wg,              \* sync.WaitGroup counter
  sent,            \* history: file jobs sent on chartFilesJobs in this run
  iconStatus,      \* history: state / outcome of every icon task of the run
  status,          \* history: state / outcome of every file-import task
  calls,           \* history: calls made by every file-import task
  prevStatus,      \* history: status at the end of the previous run
  runs,            \* number of fetchFiles calls so far
  faults           \* number of injected errors so far

VARIABLES
  repositories,    \* OCIRegistry.repositories
  responses,       \* the registry: response to the tag-list GET of each name
  tags,            \* OCIRegistry.tags
  ckpc,            \* position of Checksum
  idx,             \* index of the loop over repositories
  content,         \* local content of Checksum
  localTags,       \* local tags of Checksum
  ret,             \* what the last Checksum call returned
  fetched,         \* history: names whose tag list this call has requested
  prev,            \* history: the last successful Checksum call
  ckcalls          \* number of Checksum calls so far

VARIABLES
  index,           \* the index document fetched into HelmRepo.content
  listing          \* what Charts returned for it

VARIABLES
  archive,         \* the entries of a tarball, in stream order
  extracted        \* what the two extraction functions returned for it

VARIABLES
  task,            \* one file-import task: name, version, stored row
  tarballs,        \* the responses to the two tarball GETs of the task
  tpc,             \* position of the task
  tfiles,           \* the files FetchFiles returned to the task
  customFiles,     \* local customFiles of the task
  inserted,        \* history: the records passed to insertFiles
  terr             \* what the task returned

VARIABLE
  iconCalls        \* history: per chart, the calls its icon task made

importerVars == <<charts, store, iconStore, pc, i, toEnqueue, iconJobs,
                  iconsClosed, chartFilesJobs, filesClosed, wpc, wjob, wg,
                  sent, iconStatus, status, calls, prevStatus, runs, faults,
                  iconCalls>>

checksumVars == <<repositories, responses, tags, ckpc, idx, content,
                  localTags, ret, fetched, prev, ckcalls>>

indexVars == <<index, listing>>

tarVars == <<archive, extracted>>

taskVars == <<task, tarballs, tpc, tfiles, customFiles, inserted, terr>>

vars == <<importerVars, checksumVars, indexVars, tarVars, taskVars>>

\* The variables an action of one part of the program leaves alone.
nonImporterVars == <<checksumVars, indexVars, tarVars, taskVars>>
nonChecksumVars == <<importerVars, indexVars, tarVars, taskVars>>
nonIndexVars == <<importerVars, checksumVars, tarVars, taskVars>>
nonTarVars == <<importerVars, checksumVars, indexVars, taskVars>>
nonTaskVars == <<importerVars, checksumVars, indexVars, tarVars>>

Workers == 1..numWorkers

(***************************************************************************)
(* Data helpers.                                                           *)
(***************************************************************************)
\* fmt.Sprintf("%s/%s", r.Name, name)
chartID(name) == repoName \o "/" \o name

\* fmt.Sprintf("%s-%s", chartID, cv.Version)
chartFilesID(name, cv) == chartID(name) \o "-" \o cv.Version

\* assetManager.filesExist: a row with this ID and this digest is stored.
filesExist(rows, id, digest) ==
  \E row \in rows : row.ID = id /\ row.Digest = digest

\* assetManager.insertFiles: insert the row, or update the row of that ID.
insertFiles(rows, files) ==
  {row \in rows : row.ID # files.ID} \cup {files}

\* Sequences over S of length lo..hi.
SeqsOf(S, lo, hi) == UNION {[1..n -> S] : n \in lo..hi}

\* The ChartVersions lists of the index: distinct versions, latest first as
\* index.SortEntries leaves them (utils.go:478); "1-1" is a pre-release of
\* "1".
VersionsDescending == <<"1", "1-1">>
VersionRank(v) == CHOOSE k \in DOMAIN VersionsDescending : VersionsDescending[k] = v

\* Digest of the tarball of a chart version: one per (chart, version).
digestOf(n, v) == "sha:" \o n \o "@" \o v

VersionLists(name) ==
  {[n \in DOMAIN vs |-> [Version |-> vs[n], Digest |-> digestOf(name, vs[n])]] :
     vs \in {s \in SeqsOf(VersionStrings, 1, MaxVersions) :
               \A m, n \in DOMAIN s : m < n => VersionRank(s[m]) < VersionRank(s[n])}}

\* Icon URL of a chart of the index: chart "a-1" has none.
IconOf(n) == IF n = "a-1" THEN "" ELSE "icon"

\* The charts of the index.
ChartSet ==
  UNION {{[Name |-> n, ID |-> chartID(n), Icon |-> IconOf(n),
            ChartVersions |-> cvs] : cvs \in VersionLists(n)} : n \in Names}

\* The lists fetchFiles is called with: as returned by Charts for an index
\* whose entries carry distinct names, hence sorted strictly ascending by ID
\* (utils.go:491).
NamesAscending == <<"a", "a-1", "b">>
Rank(n) == CHOOSE k \in DOMAIN NamesAscending : NamesAscending[k] = n

ChartLists ==
  {cs \in SeqsOf(ChartSet, 0, MaxCharts) :
     \A m, n \in DOMAIN cs : m < n => Rank(cs[m].Name) < Rank(cs[n].Name)}

\* The file-import jobs of a run, by position: chart c, version v.
Jobs == {[c |-> c, v |-> v] : c \in 1..MaxCharts, v \in 1..MaxVersions}
JobsOf(cs) == {j \in Jobs : j.c \in DOMAIN cs /\ j.v \in DOMAIN cs[j.c].ChartVersions}
NoJob == [c |-> 0, v |-> 0]

\* importChartFilesJob{c.Name, c.Repo, cv}
JobName(j) == charts[j.c].Name
JobVersion(j) == charts[j.c].ChartVersions[j.v]
JobID(j) == chartFilesID(JobName(j), JobVersion(j))

\* No call of an icon task yet.
NoIconCalls ==
  [attempts |-> 0, get |-> 0, update |-> 0, status |-> 0, decoded |-> FALSE]

NoCalls == [exist |-> 0, fetch |-> 0, dir |-> 0, insert |-> 0]

\* The rows an earlier sync may have left: none, or one row for the latest
\* version of the first chart, with the current or with a stale digest.
InitialStores(cs) ==
  {{}} \cup
  {{[ID |-> chartFilesID(cs[1].Name, cs[1].ChartVersions[1]), Digest |-> d]} :
     d \in IF cs = <<>> THEN {}
           ELSE {cs[1].ChartVersions[1].Digest, StaleDigest}}

\* No value: a call that has not returned.
None == [none |-> TRUE]

\* The registry object before any Checksum call.
ChecksumReady ==
  /\ ckpc = "ready"
  /\ idx = 1
  /\ content = ""
  /\ localTags = <<>>
  /\ ret = None
  /\ fetched = <<>>
  /\ prev = None
  /\ ckcalls = 0

\* A registry source on which Checksum has not been called.
ChecksumIdle ==
  /\ tags = <<>>
  /\ ChecksumReady

\* Charts has not been called.
Unlisted == [stage |-> "none"]

\* No index has been listed.
IndexIdle ==
  /\ index = None
  /\ listing = Unlisted

\* No archive has been read.
TarIdle ==
  /\ archive = None
  /\ extracted = None

\* No single task is followed.
TaskIdle ==
  /\ task = None
  /\ tarballs = None
  /\ tpc = "none"
  /\ tfiles = None
  /\ customFiles = None
  /\ inserted = <<>>
  /\ terr = "none"

\* The importer before the first fetchFiles call.
ImporterIdle ==
  /\ iconStore = {}
  /\ pc = "idle"
  /\ i = 1
  /\ toEnqueue = <<>>
  /\ iconJobs = <<>>
  /\ iconsClosed = FALSE
  /\ chartFilesJobs = <<>>
  /\ filesClosed = FALSE
  /\ wpc = [w \in Workers |-> "none"]
  /\ wjob = [w \in Workers |-> NoJob]
  /\ wg = 0
  /\ sent = <<>>
  /\ iconStatus = [c \in DOMAIN charts |-> "none"]
  /\ status = [j \in JobsOf(charts) |-> "none"]
  /\ calls = [j \in JobsOf(charts) |-> NoCalls]
  /\ iconCalls = [c \in DOMAIN charts |-> NoIconCalls]
  /\ prevStatus = [j \in JobsOf(charts) |-> "none"]
  /\ runs = 0
  /\ faults = 0

(***************************************************************************)
(* Initial state of the importer: nothing runs yet.                        *)
(***************************************************************************)
Init ==
  /\ repositories = <<>>
  /\ responses = <<>>
  /\ ChecksumIdle
  /\ IndexIdle
  /\ TarIdle
  /\ TaskIdle
  /\ charts \in ChartLists
  /\ store \in InitialStores(charts)
  /\ ImporterIdle

(***************************************************************************)
(* fetchFiles: the producer.                                               *)
(***************************************************************************)
\* utils.go:603-614: make both channels and start numWorkers workers.
StartFetchFiles ==
  /\ pc \in {"idle", "returned"}
  /\ runs < MaxRuns
  /\ runs' = runs + 1
  /\ pc' = "icons"
  /\ i' = 1
  /\ toEnqueue' = <<>>
  /\ iconJobs' = <<>>
  /\ iconsClosed' = FALSE
  /\ chartFilesJobs' = <<>>
  /\ filesClosed' = FALSE
  /\ wpc' = [w \in Workers |-> "icons"]
  /\ wjob' = [w \in Workers |-> NoJob]
  /\ wg' = numWorkers
  /\ sent' = <<>>
  /\ iconStatus' = [c \in DOMAIN charts |-> "none"]
  /\ prevStatus' = status
  /\ status' = [j \in JobsOf(charts) |-> "none"]
  /\ calls' = [j \in JobsOf(charts) |-> NoCalls]
  /\ iconCalls' = [c \in DOMAIN charts |-> NoIconCalls]
  /\ UNCHANGED <<charts, store, iconStore, faults>>
  /\ UNCHANGED nonImporterVars

\* utils.go:617-619: iconJobs <- c, blocking while the buffer is full.
EnqueueIcon ==
  /\ pc = "icons"
  /\ i <= Len(charts)
  /\ Len(iconJobs) < numWorkers
  /\ iconJobs' = Append(iconJobs, i)
  /\ iconStatus' = [iconStatus EXCEPT ![i] = "queued"]
  /\ i' = i + 1
  /\ UNCHANGED <<charts, store, iconStore, pc, toEnqueue, iconsClosed,
                 chartFilesJobs, filesClosed, wpc, wjob, wg, sent, status,
                 calls, prevStatus, runs, faults>>
  /\ UNCHANGED iconCalls
  /\ UNCHANGED nonImporterVars

\* utils.go:622: close(iconJobs).
CloseIcons ==
  /\ pc = "icons"
  /\ i > Len(charts)
  /\ iconsClosed' = TRUE
  /\ pc' = "latest"
  /\ i' = 1
  /\ UNCHANGED <<charts, store, iconStore, toEnqueue, iconJobs,
                 chartFilesJobs, filesClosed, wpc, wjob, wg, sent, iconStatus,
                 status, calls, prevStatus, runs, faults>>
  /\ UNCHANGED iconCalls
  /\ UNCHANGED nonImporterVars

\* c.ChartVersions[1:] as jobs (utils.go:630-632).
olderVersions(c) ==
  [n \in 1..(Len(charts[c].ChartVersions) - 1) |-> [c |-> c, v |-> n + 1]]

\* A producer that sends every version of a chart before the next chart.
EnqueueInIndexOrder ==
  /\ pc = "latest"
  /\ i <= Len(charts)
  /\ Len(chartFilesJobs) < numWorkers
  /\ LET job == IF toEnqueue = <<>> THEN [c |-> i, v |-> 1] ELSE Head(toEnqueue) IN
       /\ chartFilesJobs' = Append(chartFilesJobs, job)
       /\ sent' = Append(sent, job)
       /\ status' = [status EXCEPT ![job] = "queued"]
       /\ toEnqueue' = IF toEnqueue = <<>> THEN olderVersions(i) ELSE Tail(toEnqueue)
       /\ i' = IF toEnqueue' = <<>> THEN i + 1 ELSE i
  /\ UNCHANGED <<charts, store, iconStore, pc, iconJobs, iconsClosed,
                 filesClosed, wpc, wjob, wg, iconStatus, calls, prevStatus,
                 runs, faults>>
  /\ UNCHANGED iconCalls
  /\ UNCHANGED nonImporterVars

\* utils.go:628-633: send the latest version of chart i, defer the others.
EnqueueLatest ==
  /\ pc = "latest"
  /\ i <= Len(charts)
  /\ Len(chartFilesJobs) < numWorkers
  /\ chartFilesJobs' = Append(chartFilesJobs, [c |-> i, v |-> 1])
  /\ sent' = Append(sent, [c |-> i, v |-> 1])
  /\ status' = [status EXCEPT ![[c |-> i, v |-> 1]] = "queued"]
  /\ toEnqueue' = toEnqueue \o olderVersions(i)
  /\ i' = i + 1
  /\ UNCHANGED <<charts, store, iconStore, pc, iconJobs, iconsClosed,
                 filesClosed, wpc, wjob, wg, iconStatus, calls, prevStatus,
                 runs, faults>>
  /\ UNCHANGED iconCalls
  /\ UNCHANGED nonImporterVars

\* utils.go:633-636: the loop over charts ends, the loop over toEnqueue
\* starts.
LatestDone ==
  /\ pc = "latest"
  /\ i > Len(charts)
  /\ pc' = "rest"
  /\ i' = 1
  /\ UNCHANGED <<charts, store, iconStore, toEnqueue, iconJobs, iconsClosed,
                 chartFilesJobs, filesClosed, wpc, wjob, wg, sent, iconStatus,
                 status, calls, prevStatus, runs, faults>>
  /\ UNCHANGED iconCalls
  /\ UNCHANGED nonImporterVars

\* A producer whose send never blocks on a full buffer.
EnqueueRestUnbounded ==
  /\ pc = "rest"
  /\ i <= Len(toEnqueue)
  /\ chartFilesJobs' = Append(chartFilesJobs, toEnqueue[i])
  /\ sent' = Append(sent, toEnqueue[i])
  /\ status' = [status EXCEPT ![toEnqueue[i]] = "queued"]
  /\ i' = i + 1
  /\ UNCHANGED <<charts, store, iconStore, pc, toEnqueue, iconJobs,
                 iconsClosed, filesClosed, wpc, wjob, wg, iconStatus, calls,
                 prevStatus, runs, faults>>
  /\ UNCHANGED iconCalls
  /\ UNCHANGED nonImporterVars

\* utils.go:636-638: chartFilesJobs <- cfj for the deferred jobs.
EnqueueRest ==
  /\ pc = "rest"
  /\ i <= Len(toEnqueue)
  /\ Len(chartFilesJobs) < numWorkers
  /\ chartFilesJobs' = Append(chartFilesJobs, toEnqueue[i])
  /\ sent' = Append(sent, toEnqueue[i])
  /\ status' = [status EXCEPT ![toEnqueue[i]] = "queued"]
  /\ i' = i + 1
  /\ UNCHANGED <<charts, store, iconStore, pc, toEnqueue, iconJobs,
                 iconsClosed, filesClosed, wpc, wjob, wg, iconStatus, calls,
                 prevStatus, runs, faults>>
  /\ UNCHANGED iconCalls
  /\ UNCHANGED nonImporterVars

\* A producer that closes the file queue as soon as it reaches the older
\* versions.
CloseFilesEarly ==
  /\ pc = "rest"
  /\ filesClosed' = TRUE
  /\ pc' = "wait"
  /\ UNCHANGED <<charts, store, iconStore, i, toEnqueue, iconJobs,
                 iconsClosed, chartFilesJobs, wpc, wjob, wg, sent, iconStatus,
                 status, calls, prevStatus, runs, faults>>
  /\ UNCHANGED iconCalls
  /\ UNCHANGED nonImporterVars

\* utils.go:641: close(chartFilesJobs).
CloseFiles ==
  /\ pc = "rest"
  /\ i > Len(toEnqueue)
  /\ filesClosed' = TRUE
  /\ pc' = "wait"
  /\ UNCHANGED <<charts, store, iconStore, i, toEnqueue, iconJobs,
                 iconsClosed, chartFilesJobs, wpc, wjob, wg, sent, iconStatus,
                 status, calls, prevStatus, runs, faults>>
  /\ UNCHANGED iconCalls
  /\ UNCHANGED nonImporterVars

\* A fetchFiles that returns without waiting for the workers.
ReturnWithoutWait ==
  /\ pc = "wait"
  /\ pc' = "returned"
  /\ UNCHANGED <<charts, store, iconStore, i, toEnqueue, iconJobs,
                 iconsClosed, chartFilesJobs, filesClosed, wpc, wjob, wg,
                 sent, iconStatus, status, calls, prevStatus, runs, faults>>
  /\ UNCHANGED iconCalls
  /\ UNCHANGED nonImporterVars

\* utils.go:644-645: wg.Wait() returns once every worker has called Done.
Return ==
  /\ pc = "wait"
  /\ wg = 0
  /\ pc' = "returned"
  /\ UNCHANGED <<charts, store, iconStore, i, toEnqueue, iconJobs,
                 iconsClosed, chartFilesJobs, filesClosed, wpc, wjob, wg,
                 sent, iconStatus, status, calls, prevStatus, runs, faults>>
  /\ UNCHANGED iconCalls
  /\ UNCHANGED nonImporterVars

(***************************************************************************)
(* importWorker: the consumers.                                            *)
(***************************************************************************)
\* utils.go:649: for c := range icons receives a chart.
TakeIcon(w) ==
  /\ wpc[w] = "icons"
  /\ iconJobs # <<>>
  /\ wjob' = [wjob EXCEPT ![w] = [c |-> Head(iconJobs), v |-> 0]]
  /\ iconJobs' = Tail(iconJobs)
  /\ iconStatus' = [iconStatus EXCEPT ![Head(iconJobs)] = "running"]
  /\ wpc' = [wpc EXCEPT ![w] = "icon"]
  /\ UNCHANGED <<charts, store, iconStore, pc, i, toEnqueue, iconsClosed,
                 chartFilesJobs, filesClosed, wg, sent, status, calls,
                 prevStatus, runs, faults>>
  /\ UNCHANGED iconCalls
  /\ UNCHANGED nonImporterVars

\* A receive that gives up as soon as the buffer is empty.
exhaustedWhenEmpty(buffer, closed) == buffer = <<>>

\* The range over a channel ends when the channel is closed and drained.
exhausted(buffer, closed) == buffer = <<>> /\ closed

\* A worker that leaves the icon queue only when no worker is inside an icon
\* task.
IconsExhaustedBarrier(w) ==
  /\ wpc[w] = "icons"
  /\ exhausted(iconJobs, iconsClosed)
  /\ \A v \in Workers : wpc[v] # "icon"
  /\ wpc' = [wpc EXCEPT ![w] = "files"]
  /\ UNCHANGED <<charts, store, iconStore, pc, i, toEnqueue, iconJobs,
                 iconsClosed, chartFilesJobs, filesClosed, wjob, wg, sent,
                 iconStatus, status, calls, prevStatus, runs, faults>>
  /\ UNCHANGED iconCalls
  /\ UNCHANGED nonImporterVars

\* utils.go:649/654: the range over icons ends.
IconsExhausted(w) ==
  /\ wpc[w] = "icons"
  /\ exhausted(iconJobs, iconsClosed)
  /\ wpc' = [wpc EXCEPT ![w] = "files"]
  /\ UNCHANGED <<charts, store, iconStore, pc, i, toEnqueue, iconJobs,
                 iconsClosed, chartFilesJobs, filesClosed, wjob, wg, sent,
                 iconStatus, status, calls, prevStatus, runs, faults>>
  /\ UNCHANGED iconCalls
  /\ UNCHANGED nonImporterVars

\* The outcomes of a task that are errors.
IconErrors == {"fetchErr", "statusErr", "decodeErr", "updateErr"}
FileErrors == {"fetchErr", "dirErr", "insertErr"}

\* A worker that leaves its loop on the first error.
afterTaskStopOnError(loop, o) ==
  IF o \in IconErrors \cup FileErrors THEN "done" ELSE loop

\* Position of a worker after a task ended with outcome o (utils.go:651-653,
\* 657-659): an error is logged and the loop goes on.
afterTask(loop, o) == loop

\* http.StatusOK
StatusOK == 200

\* The responses to the GET of an icon: a transport error, or a status with
\* a body that decodes as an image or does not.
IconResponses ==
  {[kind |-> "neterr", status |-> 0, decodes |-> FALSE]} \cup
  [kind : {"http"}, status : {StatusOK, 404}, decodes : BOOLEAN]

\* An icon import that stores whatever body the GET returned.
fetchAndImportIconAnyStatus(icon, res, stored) ==
  IF icon = ""
  THEN [o |-> "noicon", get |-> 0, update |-> 0]
  ELSE IF res.kind = "neterr"
  THEN [o |-> "fetchErr", get |-> 1, update |-> 0]
  ELSE IF ~res.decodes
  THEN [o |-> "decodeErr", get |-> 1, update |-> 0]
  ELSE [o |-> IF stored THEN "ok" ELSE "updateErr", get |-> 1, update |-> 1]

\* utils.go:663-722: the outcome of fetchAndImportIcon for an icon URL, the
\* response to its GET and the success of updateIcon, with the number of GETs
\* and of updateIcon calls it made.
fetchAndImportIcon(icon, res, stored) ==
  IF icon = ""
  THEN [o |-> "noicon", get |-> 0, update |-> 0]
  ELSE IF res.kind = "neterr"
  THEN [o |-> "fetchErr", get |-> 1, update |-> 0]
  ELSE IF res.status # StatusOK
  THEN [o |-> "statusErr", get |-> 1, update |-> 0]
  ELSE IF ~res.decodes
  THEN [o |-> "decodeErr", get |-> 1, update |-> 0]
  ELSE [o |-> IF stored THEN "ok" ELSE "updateErr", get |-> 1, update |-> 1]

\* utils.go:651: a worker runs fetchAndImportIcon on its job; the environment
\* gives the response to the GET and the result of updateIcon.
ImportIcon(w) ==
  /\ wpc[w] = "icon"
  /\ LET c == wjob[w].c IN
     \E res \in IconResponses, stored \in BOOLEAN :
       LET r == fetchAndImportIcon(charts[c].Icon, res, stored) IN
       /\ r.o \notin {"noicon", "ok"} => faults < MaxFaults
       /\ faults' = IF r.o \in {"noicon", "ok"} THEN faults ELSE faults + 1
       /\ iconStatus' = [iconStatus EXCEPT ![c] = r.o]
       /\ iconCalls' = [iconCalls EXCEPT ![c] =
            [attempts |-> @.attempts + 1,
             get |-> @.get + r.get,
             update |-> @.update + r.update,
             status |-> IF r.get = 1 THEN res.status ELSE @.status,
             decoded |-> IF r.get = 1 THEN res.decodes ELSE @.decoded]]
       /\ iconStore' = IF r.o = "ok" THEN iconStore \cup {charts[c].ID} ELSE iconStore
       /\ wpc' = [wpc EXCEPT ![w] = afterTask("icons", r.o)]
  /\ wjob' = [wjob EXCEPT ![w] = NoJob]
  /\ UNCHANGED <<charts, store, pc, i, toEnqueue, iconJobs, iconsClosed,
                 chartFilesJobs, filesClosed, wg, sent, status, calls,
                 prevStatus, runs>>
  /\ UNCHANGED nonImporterVars

\* A receive that leaves the job in the queue for the next receiver.
TakeFilesPeek(w) ==
  /\ wpc[w] = "files"
  /\ chartFilesJobs # <<>>
  /\ wjob' = [wjob EXCEPT ![w] = Head(chartFilesJobs)]
  /\ status' = [status EXCEPT ![Head(chartFilesJobs)] = "running"]
  /\ wpc' = [wpc EXCEPT ![w] = "gate"]
  /\ UNCHANGED <<charts, store, iconStore, pc, i, toEnqueue, iconJobs,
                 iconsClosed, chartFilesJobs, filesClosed, wg, sent,
                 iconStatus, calls, prevStatus, runs, faults>>
  /\ UNCHANGED iconCalls
  /\ UNCHANGED nonImporterVars

\* utils.go:655: for j := range chartFiles receives a job.
TakeFiles(w) ==
  /\ wpc[w] = "files"
  /\ chartFilesJobs # <<>>
  /\ wjob' = [wjob EXCEPT ![w] = Head(chartFilesJobs)]
  /\ chartFilesJobs' = Tail(chartFilesJobs)
  /\ status' = [status EXCEPT ![Head(chartFilesJobs)] = "running"]
  /\ wpc' = [wpc EXCEPT ![w] = "gate"]
  /\ UNCHANGED <<charts, store, iconStore, pc, i, toEnqueue, iconJobs,
                 iconsClosed, filesClosed, wg, sent, iconStatus, calls,
                 prevStatus, runs, faults>>
  /\ UNCHANGED iconCalls
  /\ UNCHANGED nonImporterVars

\* A worker that returns without wg.Done().
FilesExhaustedNoDone(w) ==
  /\ wpc[w] = "files"
  /\ exhausted(chartFilesJobs, filesClosed)
  /\ wpc' = [wpc EXCEPT ![w] = "done"]
  /\ UNCHANGED <<charts, store, iconStore, pc, i, toEnqueue, iconJobs,
                 iconsClosed, chartFilesJobs, filesClosed, wjob, wg, sent,
                 iconStatus, status, calls, prevStatus, runs, faults>>
  /\ UNCHANGED iconCalls
  /\ UNCHANGED nonImporterVars

\* utils.go:655/660-661 and 648: the range over chartFiles ends, the worker
\* returns and the deferred wg.Done() runs.
FilesExhausted(w) ==
  /\ wpc[w] = "files"
  /\ exhausted(chartFilesJobs, filesClosed)
  /\ wpc' = [wpc EXCEPT ![w] = "done"]
  /\ wg' = wg - 1
  /\ UNCHANGED <<charts, store, iconStore, pc, i, toEnqueue, iconJobs,
                 iconsClosed, chartFilesJobs, filesClosed, wjob, sent,
                 iconStatus, status, calls, prevStatus, runs, faults>>
  /\ UNCHANGED iconCalls
  /\ UNCHANGED nonImporterVars

(***************************************************************************)
(* fetchAndImportFilesWithCustomDirectory, one external call per step.     *)
(***************************************************************************)
\* The task of worker w ends with outcome o.
EndTask(w, o) ==
  /\ status' = [status EXCEPT ![wjob[w]] = o]
  /\ wpc' = [wpc EXCEPT ![w] = afterTask("files", o)]
  /\ wjob' = [wjob EXCEPT ![w] = NoJob]

\* A gate that looks at the ID alone.
gateClosedByID(rows, j) == \E row \in rows : row.ID = JobID(j)

\* The version-level gate (utils.go:770): skip the version when a row with
\* its ID and digest is stored.
gateClosed(rows, j) == filesExist(rows, JobID(j), JobVersion(j).Digest)

\* utils.go:765-774: build the IDs and ask filesExist.
CheckFilesExist(w) ==
  /\ wpc[w] = "gate"
  /\ calls' = [calls EXCEPT ![wjob[w]].exist = @ + 1]
  /\ IF gateClosed(store, wjob[w])
       THEN EndTask(w, "skipped")
       ELSE /\ wpc' = [wpc EXCEPT ![w] = "fetch"]
            /\ UNCHANGED <<status, wjob>>
  /\ UNCHANGED <<charts, store, iconStore, pc, i, toEnqueue, iconJobs,
                 iconsClosed, chartFilesJobs, filesClosed, wg, sent,
                 iconStatus, prevStatus, runs, faults>>
  /\ UNCHANGED iconCalls
  /\ UNCHANGED nonImporterVars

\* utils.go:776-779: repo.FetchFiles returns the files or an error.
FetchFiles(w) ==
  /\ wpc[w] = "fetch"
  /\ calls' = [calls EXCEPT ![wjob[w]].fetch = @ + 1]
  /\ \/ /\ wpc' = [wpc EXCEPT ![w] = "dir"]
        /\ UNCHANGED <<status, wjob, faults>>
     \/ /\ faults < MaxFaults
        /\ faults' = faults + 1
        /\ EndTask(w, "fetchErr")
  /\ UNCHANGED <<charts, store, iconStore, pc, i, toEnqueue, iconJobs,
                 iconsClosed, chartFilesJobs, filesClosed, wg, sent,
                 iconStatus, prevStatus, runs>>
  /\ UNCHANGED iconCalls
  /\ UNCHANGED nonImporterVars

\* utils.go:781-784: repo.FetchAllFilesFromDirectory returns the custom
\* files or an error.
FetchAllFilesFromDirectory(w) ==
  /\ wpc[w] = "dir"
  /\ calls' = [calls EXCEPT ![wjob[w]].dir = @ + 1]
  /\ \/ /\ wpc' = [wpc EXCEPT ![w] = "insert"]
        /\ UNCHANGED <<status, wjob, faults>>
     \/ /\ faults < MaxFaults
        /\ faults' = faults + 1
        /\ EndTask(w, "dirErr")
  /\ UNCHANGED <<charts, store, iconStore, pc, i, toEnqueue, iconJobs,
                 iconsClosed, chartFilesJobs, filesClosed, wg, sent,
                 iconStatus, prevStatus, runs>>
  /\ UNCHANGED iconCalls
  /\ UNCHANGED nonImporterVars

\* utils.go:787-806: assemble the ChartFiles record and call insertFiles,
\* which writes the row or returns an error.
InsertFiles(w) ==
  /\ wpc[w] = "insert"
  /\ calls' = [calls EXCEPT ![wjob[w]].insert = @ + 1]
  /\ \/ /\ store' = insertFiles(store, [ID |-> JobID(wjob[w]),
                                        Digest |-> JobVersion(wjob[w]).Digest])
        /\ EndTask(w, "ok")
        /\ UNCHANGED faults
     \/ /\ faults < MaxFaults
        /\ faults' = faults + 1
        /\ EndTask(w, "insertErr")
        /\ UNCHANGED store
  /\ UNCHANGED <<charts, iconStore, pc, i, toEnqueue, iconJobs, iconsClosed,
                 chartFilesJobs, filesClosed, wg, sent, iconStatus,
                 prevStatus, runs>>
  /\ UNCHANGED iconCalls
  /\ UNCHANGED nonImporterVars

Producer ==
  \/ StartFetchFiles
  \/ EnqueueIcon
  \/ CloseIcons
  \/ EnqueueLatest
  \/ LatestDone
  \/ EnqueueRest
  \/ CloseFiles
  \/ Return

Worker(w) ==
  \/ TakeIcon(w)
  \/ IconsExhausted(w)
  \/ ImportIcon(w)
  \/ TakeFiles(w)
  \/ FilesExhausted(w)
  \/ CheckFilesExist(w)
  \/ FetchFiles(w)
  \/ FetchAllFilesFromDirectory(w)
  \/ InsertFiles(w)

Next == Producer \/ \E w \in Workers : Worker(w)

Spec == Init /\ [][Next]_vars

TypeOK ==
  /\ pc \in {"idle", "icons", "latest", "rest", "wait", "returned"}
  /\ wg \in 0..numWorkers
  /\ runs \in 0..MaxRuns
  /\ faults \in 0..MaxFaults

(***************************************************************************)
(* Properties of the importer.                                             *)
(***************************************************************************)
InTask == {"icon", "gate", "fetch", "dir", "insert"}
InFilePhase == {"files", "gate", "fetch", "dir", "insert", "done"}
IconFinal == {"noicon", "ok"} \cup IconErrors
FileFinal == {"skipped", "ok"} \cup FileErrors

\* The row a file-import task looks for and writes: the PackageFiles ID
\* "{repoName}/{name}-{version}" with the version's digest.
RowOf(j) ==
  [ID |-> repoName \o "/" \o charts[j.c].Name \o "-" \o
            charts[j.c].ChartVersions[j.v].Version,
   Digest |-> charts[j.c].ChartVersions[j.v].Digest]

\* C1: the file-import task of the latest version (index 1 of the model's
\* 1-based lists) of every chart is sent on chartFilesJobs before the task of
\* any older version of any chart, the versions of one chart are sent in
\* index order, and once the queue is closed every version of every chart
\* has been sent exactly once.
C1_LatestVersionsFirst ==
  /\ \A m, n \in DOMAIN sent :
       /\ (sent[m].v = 1 /\ sent[n].v > 1) => m < n
       /\ (sent[m].c = sent[n].c /\ sent[m].v < sent[n].v) => m < n
       /\ sent[m] = sent[n] => m = n
  /\ pc \in {"wait", "returned"} => {sent[n] : n \in DOMAIN sent} = JobsOf(charts)

\* Two charts of two versions each have been scheduled.
C1_Witness ==
  /\ pc = "returned"
  /\ Len(sent) = 4
  /\ sent[2] = [c |-> 2, v |-> 1]
  /\ sent[3] = [c |-> 1, v |-> 2]

\* C2: a worker is in the file-import phase, or a file-import task has been
\* taken, only when iconJobs is closed and empty and every icon task of the
\* run has been received by a worker.
C2_IconsDrainedBeforeFiles ==
  (\/ \E w \in Workers : wpc[w] \in InFilePhase
   \/ \E j \in JobsOf(charts) : status[j] \notin {"none", "queued"})
  => /\ iconsClosed
     /\ iconJobs = <<>>
     /\ \A c \in DOMAIN charts : iconStatus[c] \notin {"none", "queued"}

\* One worker runs a file-import task while another still runs an icon task.
C2_Witness ==
  \E w1, w2 \in Workers : wpc[w1] = "gate" /\ wpc[w2] = "icon"

\* C3: when fetchFiles has returned, both queues are empty, every worker has
\* exited and holds no task, and every icon task and every file-import task
\* of the run has ended with an outcome.
C3_ReturnsAfterAllTasks ==
  pc = "returned" =>
    /\ iconJobs = <<>> /\ chartFilesJobs = <<>>
    /\ wg = 0
    /\ \A w \in Workers : wpc[w] = "done" /\ wjob[w] = NoJob
    /\ \A c \in DOMAIN charts : iconStatus[c] \in IconFinal
    /\ \A j \in JobsOf(charts) : status[j] \in FileFinal

\* fetchFiles has returned from a run of two icon tasks and four file tasks.
C3_Witness ==
  /\ pc = "returned"
  /\ Len(charts) = 2
  /\ Cardinality(JobsOf(charts)) = 4

\* The step ends the task of worker w with an error.
FailsAt(w) ==
  /\ wpc[w] \in InTask
  /\ wjob'[w] = NoJob
  /\ \/ wjob[w].v = 0 /\ iconStatus'[wjob[w].c] \in IconErrors
     \/ wjob[w].v > 0 /\ status'[wjob[w]] \in FileErrors

\* C4: a step in which a task fails leaves its worker in the loop it was
\* in, leaves every other worker, both queues, the close flags and the
\* producer as they were; and fetchFiles returns only with every task ended
\* in an outcome of its own, whether or not other tasks failed.
C4_FailureIsIsolated ==
  /\ [][\A w \in Workers : FailsAt(w) =>
          /\ wpc'[w] = IF wjob[w].v = 0 THEN "icons" ELSE "files"
          /\ \A o \in Workers \ {w} : wpc'[o] = wpc[o] /\ wjob'[o] = wjob[o]
          /\ UNCHANGED <<iconJobs, chartFilesJobs, iconsClosed, filesClosed,
                         pc, i, toEnqueue, wg, store>>
          /\ \A j \in JobsOf(charts) \ {wjob[w]} : status'[j] = status[j]]_vars
  /\ [](pc = "returned" =>
          /\ \A c \in DOMAIN charts : iconStatus[c] \in IconFinal
          /\ \A j \in JobsOf(charts) :
               /\ status[j] \in FileFinal
               /\ status[j] = "ok" => calls[j].insert = 1)

\* A run has returned in which the task of one chart failed to fetch and
\* the task of another chart inserted its files.
C4_Witness ==
  /\ pc = "returned"
  /\ \E a, b \in JobsOf(charts) :
       /\ a.c # b.c
       /\ status[a] = "fetchErr"
       /\ status[b] = "ok" /\ calls[b].insert = 1

\* C5: when a file-import task leaves the gate and a row with its ID and
\* its digest is stored, the task ends without error and has made no
\* FetchFiles, FetchAllFilesFromDirectory or insertFiles call and the store
\* is unchanged; when no such row is stored the task goes on to FetchFiles,
\* and its next step makes that call.  A skipped task never has such calls.
C5_GateSkipsExistingFiles ==
  /\ [][\A w \in Workers :
          /\ (wpc[w] = "gate" /\ wpc'[w] # "gate") =>
               IF RowOf(wjob[w]) \in store
                 THEN /\ status'[wjob[w]] = "skipped"
                      /\ wpc'[w] = "files"
                      /\ calls'[wjob[w]].fetch = 0
                      /\ calls'[wjob[w]].dir = 0
                      /\ calls'[wjob[w]].insert = 0
                      /\ store' = store
                 ELSE /\ wpc'[w] = "fetch"
                      /\ status'[wjob[w]] = "running"
          /\ (wpc[w] = "fetch" /\ wpc'[w] # "fetch") =>
               calls'[wjob[w]].fetch = calls[wjob[w]].fetch + 1]_vars
  /\ [](\A j \in JobsOf(charts) :
          status[j] = "skipped" =>
            calls[j].fetch = 0 /\ calls[j].dir = 0 /\ calls[j].insert = 0)

\* In one run a version has been skipped and another, whose stored row
\* carries a stale digest, is about to be fetched.
C5_Witness ==
  /\ \E j \in JobsOf(charts) : status[j] = "skipped"
  /\ \E w \in Workers :
       /\ wpc[w] = "fetch"
       /\ [ID |-> RowOf(wjob[w]).ID, Digest |-> StaleDigest] \in store

\* C6: a task that failed in FetchFiles or FetchAllFilesFromDirectory has
\* made no insertFiles call and, once the run has returned, the store holds
\* no row with its ID and digest; in the following run such a version is
\* not skipped, while a version whose task succeeded is not fetched again.
C6_FailedVersionsAreRetried ==
  /\ \A j \in JobsOf(charts) :
       status[j] \in {"fetchErr", "dirErr"} =>
         /\ calls[j].insert = 0
         /\ pc = "returned" => RowOf(j) \notin store
  /\ \A j \in JobsOf(charts) :
       /\ prevStatus[j] \in {"fetchErr", "dirErr"} => status[j] # "skipped"
       /\ prevStatus[j] = "ok" => calls[j].fetch = 0

\* C7: no two file-import tasks of a run have the same PackageFiles ID, so
\* no two workers are between filesExist and insertFiles on the same ID at
\* the same time; and no two workers run an icon task for the same chart ID.
C7_DisjointKeys ==
  /\ \A w1, w2 \in Workers :
       (w1 # w2 /\ wpc[w1] \in InTask \ {"icon"} /\ wpc[w2] \in InTask \ {"icon"})
         => RowOf(wjob[w1]).ID # RowOf(wjob[w2]).ID
  /\ \A w1, w2 \in Workers :
       (w1 # w2 /\ wpc[w1] = "icon" /\ wpc[w2] = "icon")
         => charts[wjob[w1].c].ID # charts[wjob[w2].c].ID

\* C8: at most numWorkers tasks are being executed, each queue holds at
\* most numWorkers tasks, and no step adds a task to a queue that holds
\* numWorkers tasks.
C8_BoundedInFlight ==
  /\ [](/\ Cardinality({c \in DOMAIN charts : iconStatus[c] = "running"})
           + Cardinality({j \in JobsOf(charts) : status[j] = "running"})
             <= numWorkers
        /\ Len(iconJobs) <= numWorkers
        /\ Len(chartFilesJobs) <= numWorkers)
  /\ [][/\ Len(iconJobs) = numWorkers => Len(iconJobs') <= numWorkers
        /\ Len(chartFilesJobs) = numWorkers => Len(chartFilesJobs') <= numWorkers]_vars

\* The file queue is full, every worker is executing a task and the
\* producer still has a job to send.
C8_Witness ==
  /\ Len(chartFilesJobs) = numWorkers
  /\ \A w \in Workers : wpc[w] \in InTask
  /\ pc = "rest" /\ i <= Len(toEnqueue)

(***************************************************************************)
(* OCIRegistry.Checksum.                                                   *)
(***************************************************************************)
\* Longest repositories list of a registry.
MaxRepos == 3
\* Number of Checksum calls.
MaxCalls == 2

\* Names of the repositories of the registry.
RepoNames == {"n1", "n2"}

\* Tag-list payloads: two documents json.Unmarshal accepts as a TagList and
\* one it rejects.
TagListA == "{\"name\":\"n\",\"tags\":[\"1\"]}"
TagListB == "{\"tags\":[\"1\",\"2\"]}"
NotJSON == "<html>"
Bodies == {TagListA, TagListB, NotJSON}

\* What netClient.Do and the read of the body give for one GET: a transport
\* error, or a status with a body whose read succeeds or fails.
Responses ==
  {[kind |-> "neterr", status |-> 0, body |-> ""],
   [kind |-> "http", status |-> 404, body |-> ""],
   [kind |-> "readerr", status |-> StatusOK, body |-> ""]}
  \cup {[kind |-> "http", status |-> StatusOK, body |-> b] : b \in Bodies}

RepoLists == SeqsOf(RepoNames, 0, MaxRepos)

\* utils.go:287-311, doReq: the body, or an error.
doReq(res) ==
  IF res.kind = "neterr" THEN [data |-> "", err |-> TRUE]
  ELSE IF res.status # StatusOK THEN [data |-> "", err |-> TRUE]
  ELSE IF res.kind = "readerr" THEN [data |-> res.body, err |-> TRUE]
  ELSE [data |-> res.body, err |-> FALSE]

\* json.Unmarshal(data, &appTags) on the payloads of the model.
jsonUnmarshal(data) ==
  IF data = TagListA THEN [appTags |-> [Name |-> "n", Tags |-> <<"1">>], err |-> FALSE]
  ELSE IF data = TagListB THEN [appTags |-> [Name |-> "", Tags |-> <<"1", "2">>], err |-> FALSE]
  ELSE [appTags |-> [Name |-> "", Tags |-> <<>>], err |-> TRUE]

\* utils.go:98-105, getSha256: the hex digest of src.  SHA-256 is modelled
\* as collision-free: the digest names the bytes it was computed from.
getSha256(src) == [digest |-> "sha256:" \o src, err |-> FALSE]

\* A content that puts the newest payload first.
prependData(bytes, data) == data \o bytes

\* utils.go:337: content = append(content, data...)
appendData(bytes, data) == bytes \o data

\* tags[appName] = appTags on a map.
mapPut(m, key, val) ==
  [n \in DOMAIN m \cup {key} |-> IF n = key THEN val ELSE m[n]]

\* r.tags when Checksum is called: nothing, or what a successful call left
\* when the registry answered for the list <<"n1">> with an older document.
EarlierTags ==
  {<<>>, [n \in {"n1"} |-> [Name |-> "", Tags |-> <<"0">>]]}

\* Initial state of a registry source: getOCIRepo has built it (utils.go:
\* 450-460), so its URL parses and line 319 cannot fail.
InitChecksum ==
  /\ repositories \in RepoLists
  /\ responses \in [RepoNames -> Responses]
  /\ tags \in EarlierTags
  /\ ChecksumReady
  /\ IndexIdle
  /\ TarIdle
  /\ TaskIdle
  /\ charts = <<>>
  /\ store = {}
  /\ ImporterIdle

\* History: the call that has just returned, when it returned a digest,
\* else the successful call recorded before it.
lastSuccess ==
  IF ckpc = "done" /\ ret # None /\ ~ret.err
    THEN [repositories |-> repositories, content |-> content,
          digest |-> ret.digest]
    ELSE prev

\* utils.go:450-460: a later sync builds the registry source anew, with the
\* list of repositories it is given.
getOCIRepo ==
  /\ ckpc \in {"ready", "done"}
  /\ ckcalls < MaxCalls
  /\ \E ociRepos \in RepoLists :
       /\ ociRepos # repositories
       /\ repositories' = ociRepos
  /\ tags' = <<>>
  /\ ckpc' = "ready"
  /\ ret' = None
  /\ prev' = lastSuccess
  /\ UNCHANGED <<responses, idx, content, localTags, fetched, ckcalls>>
  /\ UNCHANGED nonChecksumVars

\* utils.go:315-317: Checksum is called.
ChecksumCall ==
  /\ ckpc \in {"ready", "done"}
  /\ ckcalls < MaxCalls
  /\ ckcalls' = ckcalls + 1
  /\ content' = ""
  /\ localTags' = <<>>
  /\ idx' = 1
  /\ fetched' = <<>>
  /\ ret' = None
  /\ ckpc' = "loop"
  /\ prev' = lastSuccess
  /\ UNCHANGED <<repositories, responses, tags>>
  /\ UNCHANGED nonChecksumVars

\* The error return of Checksum (utils.go:328, 334).
ReturnError ==
  /\ ret' = [digest |-> "", err |-> TRUE]
  /\ ckpc' = "done"
  /\ UNCHANGED <<idx, content, localTags>>

\* An iteration that skips a name whose fetch or parse failed.
SkipOnError ==
  /\ idx' = idx + 1
  /\ UNCHANGED <<ret, ckpc, content, localTags>>

\* What an iteration does when doReq or json.Unmarshal fails.
onError == ReturnError

\* An iteration that stores the parsed listing in r.tags at once.
ChecksumIterationStoresTags ==
  /\ ckpc = "loop"
  /\ idx <= Len(repositories)
  /\ LET appName == repositories[idx]
         req == doReq(responses[appName])
         parsed == jsonUnmarshal(req.data)
     IN /\ fetched' = Append(fetched, appName)
        /\ IF req.err \/ parsed.err
             THEN onError /\ tags' = tags
             ELSE /\ localTags' = mapPut(localTags, appName, parsed.appTags)
                  /\ tags' = mapPut(tags, appName, parsed.appTags)
                  /\ content' = appendData(content, req.data)
                  /\ idx' = idx + 1
                  /\ UNCHANGED <<ret, ckpc>>
  /\ UNCHANGED <<repositories, responses, prev, ckcalls>>
  /\ UNCHANGED nonChecksumVars

\* utils.go:318-338: one iteration of the loop over r.repositories.
ChecksumIteration ==
  /\ ckpc = "loop"
  /\ idx <= Len(repositories)
  /\ LET appName == repositories[idx]
         req == doReq(responses[appName])
         parsed == jsonUnmarshal(req.data)
     IN /\ fetched' = Append(fetched, appName)
        /\ IF req.err \/ parsed.err
             THEN onError
             ELSE /\ localTags' = mapPut(localTags, appName, parsed.appTags)
                  /\ content' = appendData(content, req.data)
                  /\ idx' = idx + 1
                  /\ UNCHANGED <<ret, ckpc>>
  /\ UNCHANGED <<repositories, responses, tags, prev, ckcalls>>
  /\ UNCHANGED nonChecksumVars

\* utils.go:339-341: store the tags and return the digest of content.
ChecksumReturn ==
  /\ ckpc = "loop"
  /\ idx > Len(repositories)
  /\ tags' = localTags
  /\ ret' = getSha256(content)
  /\ ckpc' = "done"
  /\ UNCHANGED <<repositories, responses, idx, content, localTags, fetched,
                 prev, ckcalls>>
  /\ UNCHANGED nonChecksumVars

NextChecksum ==
  \/ getOCIRepo
  \/ ChecksumCall
  \/ ChecksumIteration
  \/ ChecksumReturn

SpecChecksum == InitChecksum /\ [][NextChecksum]_vars

(***************************************************************************)
(* Properties of the registry checksum.                                    *)
(***************************************************************************)
\* The tag-list GET of this name gives a payload that parses as a TagList.
Usable(name) ==
  /\ responses[name].kind = "http"
  /\ responses[name].status = 200
  /\ responses[name].body \in {TagListA, TagListB}

\* Index of the first name of the list whose fetch or parse fails, 0 if none.
FirstFailure(list) ==
  IF \E k \in DOMAIN list : ~Usable(list[k])
    THEN CHOOSE k \in DOMAIN list :
           ~Usable(list[k]) /\ \A m \in 1..(k - 1) : Usable(list[m])
    ELSE 0

\* C9: when the fetch or the parse fails for a name of the list, Checksum
\* returns an error and the empty digest, and has requested the names up to
\* that one and no later one; when none fails it returns no error and has
\* requested every name.
C9_ChecksumFailFast ==
  ckpc = "done" =>
    LET k == FirstFailure(repositories) IN
      IF k = 0
        THEN ~ret.err /\ ret.digest # "" /\ fetched = repositories
        ELSE /\ ret = [digest |-> "", err |-> TRUE]
             /\ fetched = SubSeq(repositories, 1, k)

\* Checksum failed at the second of three names, after a payload had been
\* accumulated.
C9_Witness ==
  /\ ckpc = "done"
  /\ ret.err
  /\ Len(repositories) = 3
  /\ Len(fetched) = 2
  /\ content # ""

\* The payloads of the names of a list, concatenated in list order.
RECURSIVE PayloadsInOrder(_)
PayloadsInOrder(list) ==
  IF list = <<>> THEN ""
  ELSE responses[Head(list)].body \o PayloadsInOrder(Tail(list))

\* The payloads of the names of a list, as a sequence.
PayloadSeq(list) == [k \in DOMAIN list |-> responses[list[k]].body]

IsReordering(a, b) ==
  /\ Len(a) = Len(b)
  /\ \A n \in RepoNames :
       Cardinality({k \in DOMAIN a : a[k] = n}) = Cardinality({k \in DOMAIN b : b[k] = n})

\* C10: a successful Checksum hashes the payloads concatenated in the order
\* of the repositories list; against the same responses, a call with the
\* list of an earlier successful call returns the digest of that call, two
\* calls return the same digest exactly when they hashed the same bytes,
\* and a call whose list is a reordering of the earlier list that puts the
\* payloads in another order hashes other bytes.
C10_ChecksumDeterministic ==
  (ckpc = "done" /\ ~ret.err) =>
    /\ content = PayloadsInOrder(repositories)
    /\ prev # None =>
         /\ prev.repositories = repositories => ret.digest = prev.digest
         /\ (ret.digest = prev.digest) <=> (content = prev.content)
         /\ (/\ IsReordering(prev.repositories, repositories)
             /\ PayloadSeq(prev.repositories) # PayloadSeq(repositories))
              => content # prev.content /\ ret.digest # prev.digest

\* Two successful calls over the same names in another order gave two
\* digests.
C10_Witness ==
  /\ ckpc = "done" /\ ~ret.err
  /\ prev # None
  /\ Len(repositories) = 2
  /\ prev.repositories # repositories
  /\ IsReordering(prev.repositories, repositories)
  /\ ret.digest # prev.digest

\* ------------------------------------------------------------------------
\* HelmRepo.Charts: parseRepoIndex, chartsFromIndex and newChart.
\* ------------------------------------------------------------------------

\* The longest version list of an index entry.
MaxEntryVersions == 2

\* The keys of index.Entries.
IndexKeys == {"a", "b"}

\* The names found in the metadata of the chart versions. The index is
\* foreign data: nothing ties the name of a version to the key of its entry.
EntryNames == {"a", "a/b"}

\* The versions of the model, newest first.
SemverDescending == <<"3", "2", "1">>

\* The place of a version in the descending order.
SemverRank(v) ==
  CHOOSE k \in 1..Len(SemverDescending) : SemverDescending[k] = v

EntryVersions == {SemverDescending[k] : k \in 1..Len(SemverDescending)}

\* helmrepo.ChartVersion, reduced to the fields the listing reads.
ChartVersionEntries ==
  [Name : EntryNames, Version : EntryVersions, Deprecated : BOOLEAN]

\* The version lists of an entry as the document gives them: any order,
\* possibly empty, no version twice.
EntryLists ==
  {l \in SeqsOf(ChartVersionEntries, 0, MaxEntryVersions) :
     \A m, n \in 1..Len(l) : m # n => l[m].Version # l[n].Version}

\* The index documents: one that is not YAML, or any mapping of some keys
\* to version lists.
IndexDocuments ==
  {[parsed |-> FALSE]} \cup
  {[parsed |-> TRUE, entries |-> e] :
     e \in UNION {[K -> EntryLists] : K \in SUBSET IndexKeys}}

\* index.SortEntries, for one entry: newest version first.
SortEntries(l) ==
  LET perms == {p \in [1..Len(l) -> 1..Len(l)] :
                  \A m, n \in 1..Len(l) : m # n => p[m] # p[n]}
      p == CHOOSE q \in perms :
             \A m, n \in 1..Len(l) :
               m < n => SemverRank(l[q[m]].Version) < SemverRank(l[q[n]].Version)
  IN [k \in 1..Len(l) |-> l[p[k]]]

\* utils.go:472-480: unmarshal without validation, then sort every entry.
parseRepoIndex(doc) ==
  IF ~doc.parsed
  THEN [err |-> TRUE, entries |-> <<>>]
  ELSE [err |-> FALSE,
        entries |-> [k \in DOMAIN doc.entries |-> SortEntries(doc.entries[k])]]

\* url.PathEscape on the names of the model: "/" becomes "%2F".
pathEscape(name) ==
  CASE name = "a/b" -> "a%2Fb"
    [] OTHER -> name

\* utils.go:497-506: the chart of an entry takes its fields from entry[0];
\* key is a ghost field, the key of the entry the chart was built from.
newChart(key, entry) ==
  [Name |-> pathEscape(entry[1].Name),
   ID |-> chartID(pathEscape(entry[1].Name)),
   Deprecated |-> entry[1].Deprecated,
   ChartVersions |-> [k \in 1..Len(entry) |-> [Version |-> entry[k].Version]],
   key |-> key]

\* The IDs of the model in the byte order of Go's string comparison.
IDsAscending == <<"r/a", "r/a%2Fb">>

\* charts[i].ID < charts[j].ID
IDLess(x, y) ==
  LET rank(id) == CHOOSE k \in 1..Len(IDsAscending) : IDsAscending[k] = id
  IN rank(x) < rank(y)

\* Every enumeration of S: the order a range over a Go map may take.
Enumerations(S) ==
  {l \in SeqsOf(S, Cardinality(S), Cardinality(S)) :
     \A e \in S : \E k \in 1..Len(l) : l[k] = e}

\* utils.go:491: sort.Slice by ID; it is not stable, so charts of equal ID
\* end in either order.
sortSlice(S) ==
  {l \in Enumerations(S) :
     \A m, n \in 1..Len(l) : m < n => ~IDLess(l[n].ID, l[m].ID)}

\* A listing that keeps deprecated entries.
skipEntryNever(entry) == FALSE

\* utils.go:485: entry[0].GetDeprecated()
skipEntry(entry) == entry[1].Deprecated

\* utils.go:482-493: entry[0] of an empty version list is out of range; else
\* the charts of the entries that are not skipped, sorted by ID.
chartsFromIndex(entries) ==
  IF \E k \in DOMAIN entries : entries[k] = <<>>
  THEN {[stage |-> "panic"]}
  ELSE LET kept == {newChart(k, entries[k]) :
                      k \in {x \in DOMAIN entries : ~skipEntry(entries[x])}}
       IN {[stage |-> "listed", charts |-> l] : l \in sortSlice(kept)}

\* The state in which Charts is called on some index document.
InitIndex ==
  /\ repositories = <<>>
  /\ responses = <<>>
  /\ ChecksumIdle
  /\ TarIdle
  /\ TaskIdle
  /\ charts = <<>>
  /\ store = {}
  /\ ImporterIdle
  /\ index \in IndexDocuments
  /\ listing = Unlisted

\* utils.go:135-138: Charts parses the index; a parse error is returned with
\* an empty list.
ChartsParse ==
  /\ listing = Unlisted
  /\ LET p == parseRepoIndex(index)
     IN listing' = IF p.err
                   THEN [stage |-> "returned", charts |-> <<>>, err |-> "parse"]
                   ELSE [stage |-> "parsed", entries |-> p.entries]
  /\ UNCHANGED index
  /\ UNCHANGED nonIndexVars

\* utils.go:146: Charts calls chartsFromIndex on the parsed index.
ChartsFromIndex ==
  /\ listing.stage = "parsed"
  /\ listing' \in chartsFromIndex(listing.entries)
  /\ UNCHANGED index
  /\ UNCHANGED nonIndexVars

\* A Charts that returns whatever list it has, with no error.
ChartsReturnAnyList ==
  /\ listing.stage = "listed"
  /\ listing' = [stage |-> "returned", charts |-> listing.charts, err |-> "nil"]
  /\ UNCHANGED index
  /\ UNCHANGED nonIndexVars

\* utils.go:147-152: an empty listing is an error, any other is returned.
ChartsReturn ==
  /\ listing.stage = "listed"
  /\ listing' = [stage |-> "returned", charts |-> listing.charts,
                 err |-> IF listing.charts = <<>> THEN "no charts" ELSE "nil"]
  /\ UNCHANGED index
  /\ UNCHANGED nonIndexVars

NextIndex == ChartsParse \/ ChartsFromIndex \/ ChartsReturn

SpecIndex == InitIndex /\ [][NextIndex]_vars

\* The entries chartsFromIndex was given: the parsed index.
ParsedEntries == parseRepoIndex(index).entries

\* The package of key k is flagged deprecated: its latest version is.
FlaggedDeprecated(k) ==
  LET l == index.entries[k]
  IN \E m \in 1..Len(l) :
       /\ l[m].Deprecated
       /\ \A n \in 1..Len(l) : SemverRank(l[m].Version) <= SemverRank(l[n].Version)

\* How many charts of the listing were built from the entry of key k.
Occurrences(k) ==
  Cardinality({n \in 1..Len(listing.charts) : listing.charts[n].key = k})

\* C11: in the list chartsFromIndex returns, no chart is flagged deprecated,
\* no chart comes from an entry flagged deprecated, and every entry that is
\* not flagged deprecated has exactly one chart.
C11_DeprecatedExcluded ==
  listing.stage = "listed" =>
    /\ \A n \in 1..Len(listing.charts) : ~listing.charts[n].Deprecated
    /\ \A k \in DOMAIN index.entries :
         Occurrences(k) = IF FlaggedDeprecated(k) THEN 0 ELSE 1

\* A listing of an index with a deprecated entry, whose older version is not
\* deprecated, next to an entry that is kept.
C11_Witness ==
  /\ listing.stage = "listed"
  /\ Len(listing.charts) = 1
  /\ \E k \in DOMAIN index.entries :
       /\ FlaggedDeprecated(k)
       /\ \E m \in 1..Len(index.entries[k]) : ~index.entries[k][m].Deprecated

\* C12: the list chartsFromIndex returns is strictly ascending by ID, so no
\* two charts share an ID, and every ID is the repository name, "/", and the
\* escaped name of the latest version of the entry.
C12_StrictlySortedByID ==
  listing.stage = "listed" =>
    /\ \A m, n \in 1..Len(listing.charts) :
         m < n => IDLess(listing.charts[m].ID, listing.charts[n].ID)
    /\ \A n \in 1..Len(listing.charts) :
         LET l == ParsedEntries[listing.charts[n].key]
         IN listing.charts[n].ID = repoName \o "/" \o pathEscape(l[1].Name)

\* ------------------------------------------------------------------------
\* Tarball extraction: extractFilesFromTarball and
\* extractDirectoryFilesFromTarball.
\* ------------------------------------------------------------------------

\* The longest archive.
MaxEntries == 3

\* A path is the sequence of the chunks of its string; two paths are compared
\* chunk by chunk. The chart of the archives is "a".
ReadmePath == <<"a", "/", "README", ".md">>
ReadmeLowerPath == <<"a", "/", "readme", ".md">>
ValuesPath == <<"a", "/", "values", ".yaml">>
SchemaPath == <<"a", "/", "values", ".schema", ".json">>
CustomDirPath == <<"a", "/", "CustomFiles", "/">>
CustomFilePath == <<"a", "/", "CustomFiles", "/", "x">>
SiblingPath == <<"a", "/", "CustomFiles", "Old">>
ChartYamlPath == <<"a", "/", "Chart", ".yaml">>

\* tar.Header with the content io.Copy reads for it. A directory entry has
\* no content.
TarEntries ==
  {[Name |-> ReadmePath, Typeflag |-> "reg", Content |-> "R1"],
   [Name |-> ReadmeLowerPath, Typeflag |-> "reg", Content |-> "R2"],
   [Name |-> ValuesPath, Typeflag |-> "reg", Content |-> "V"],
   [Name |-> SchemaPath, Typeflag |-> "reg", Content |-> "S"],
   [Name |-> CustomDirPath, Typeflag |-> "dir", Content |-> ""],
   [Name |-> CustomFilePath, Typeflag |-> "reg", Content |-> "X"],
   [Name |-> SiblingPath, Typeflag |-> "reg", Content |-> "Y"],
   [Name |-> ChartYamlPath, Typeflag |-> "reg", Content |-> "C"]}

\* A tar stream: the entries tarf.Next yields, then io.EOF or, for a damaged
\* stream, an error.
Archives ==
  [entries : SeqsOf(TarEntries, 0, MaxEntries), damaged : BOOLEAN]

\* unicode.ToLower on the chunks of the model.
toLower(chunk) ==
  CASE chunk = "README" -> "readme"
    [] chunk = "Chart" -> "chart"
    [] OTHER -> chunk

\* Comparison of the paths as written.
EqualExact(p, q) == p = q

\* strings.EqualFold
EqualFold(p, q) ==
  /\ Len(p) = Len(q)
  /\ \A k \in 1..Len(p) : toLower(p[k]) = toLower(q[k])

\* strings.HasPrefix
HasPrefix(p, prefix) ==
  /\ Len(prefix) <= Len(p)
  /\ SubSeq(p, 1, Len(prefix)) = prefix

\* url.PathUnescape then path.Base, on the names of the model.
fixedName(name) ==
  CASE name = "x%2Fa" -> "a"
    [] OTHER -> name

\* utils.go:252-259: the three files FetchFiles asks for.
filenames(name) ==
  [values |-> <<fixedName(name), "/", "values", ".yaml">>,
   readme |-> <<fixedName(name), "/", "README", ".md">>,
   schema |-> <<fixedName(name), "/", "values", ".schema", ".json">>]

\* utils.go:201: fixedName + "/" + directoryName
directoryPath(name, directoryName) == <<fixedName(name), "/", directoryName>>

\* utils.go:657: the custom directory of every chart.
customDirectoryName == "CustomFiles"

RECURSIVE extractFilesLoop(_, _, _)
\* utils.go:541-548: for every header in stream order, the first requested
\* name that matches it takes the content of the entry. The requested names
\* differ beyond letter case, so at most one matches.
extractFilesLoop(names, entries, acc) ==
  IF entries = <<>>
  THEN acc
  ELSE LET header == Head(entries)
           ids == {id \in DOMAIN names : EqualFold(header.Name, names[id])}
       IN extractFilesLoop(names, Tail(entries),
            IF ids = {} THEN acc
            ELSE mapPut(acc, CHOOSE id \in ids : TRUE, header.Content))

\* utils.go:531-552
extractFilesFromTarball(names, tarf) ==
  [ret |-> extractFilesLoop(names, tarf.entries, <<>>), err |-> tarf.damaged]

RECURSIVE extractDirectoryLoop(_, _, _)
\* utils.go:519-525: every header whose name has the prefix is stored under
\* its name, whatever its type.
extractDirectoryLoop(prefix, entries, acc) ==
  IF entries = <<>>
  THEN acc
  ELSE LET header == Head(entries)
       IN extractDirectoryLoop(prefix, Tail(entries),
            IF HasPrefix(header.Name, prefix)
            THEN mapPut(acc, header.Name, header.Content)
            ELSE acc)

\* utils.go:508-529
extractDirectoryFilesFromTarball(prefix, tarf) ==
  [ret |-> extractDirectoryLoop(prefix, tarf.entries, <<>>), err |-> tarf.damaged]

\* Nothing has been extracted.
Unread == [mode |-> "none"]

\* The state in which an archive is about to be read.
InitTar ==
  /\ repositories = <<>>
  /\ responses = <<>>
  /\ ChecksumIdle
  /\ IndexIdle
  /\ TaskIdle
  /\ charts = <<>>
  /\ store = {}
  /\ ImporterIdle
  /\ archive \in Archives
  /\ extracted = Unread

\* utils.go:261: FetchFiles extracts its three files from the stream.
ExtractFiles ==
  /\ extracted = Unread
  /\ extracted' = [mode |-> "files"] @@ extractFilesFromTarball(filenames("a"), archive)
  /\ UNCHANGED archive
  /\ UNCHANGED nonTarVars

\* utils.go:203: FetchAllFilesFromDirectory extracts the custom directory.
ExtractDirectory ==
  /\ extracted = Unread
  /\ extracted' = [mode |-> "directory"] @@
       extractDirectoryFilesFromTarball(directoryPath("a", customDirectoryName), archive)
  /\ UNCHANGED archive
  /\ UNCHANGED nonTarVars

NextTar == ExtractFiles \/ ExtractDirectory

SpecTar == InitTar /\ [][NextTar]_vars

\* The positions of the archive entries whose path has the custom prefix.
PrefixEntries ==
  {n \in 1..Len(archive.entries) :
     HasPrefix(archive.entries[n].Name, <<"a", "/", "CustomFiles">>)}

\* C13: prefix-mode extraction returns the mapping whose keys are exactly the
\* paths of the entries that are not directories and whose path starts with
\* the prefix, each with the content of such an entry; no directory entry is
\* in it.
C13_PrefixSkipsDirectories ==
  extracted.mode = "directory" =>
    /\ DOMAIN extracted.ret =
         {archive.entries[n].Name :
            n \in {m \in PrefixEntries : archive.entries[m].Typeflag # "dir"}}
    /\ \A p \in DOMAIN extracted.ret :
         \E n \in PrefixEntries :
           /\ archive.entries[n].Name = p
           /\ archive.entries[n].Content = extracted.ret[p]

\* The positions of the archive entries that match the requested key.
MatchingEntries(id) ==
  {n \in 1..Len(archive.entries) :
     LET p == archive.entries[n].Name
         q == filenames("a")[id]
     IN Len(p) = Len(q) /\ \A k \in 1..Len(p) : toLower(p[k]) = toLower(q[k])}

\* The requested keys.
FileKeys == {"values", "readme", "schema"}

\* C18, as stated: fixed-name extraction maps every requested key to the
\* content of every entry whose path equals the key's path up to letter
\* case; a key without such an entry is absent, and nothing else is in the
\* result.
C18_EveryMatchMapped ==
  extracted.mode = "files" =>
    /\ DOMAIN extracted.ret = {id \in FileKeys : MatchingEntries(id) # {}}
    /\ \A id \in DOMAIN extracted.ret : \A n \in MatchingEntries(id) :
         extracted.ret[id] = archive.entries[n].Content

\* The last position of a non-empty set of positions.
Last(S) == CHOOSE n \in S : \A m \in S : m <= n

\* C18, amended: fixed-name extraction maps every requested key with a
\* matching entry to the content of the last matching entry of the archive,
\* whatever the order of the entries; a key without a matching entry is
\* absent, and nothing else is in the result.
C18_LastMatchMapped ==
  extracted.mode = "files" =>
    /\ DOMAIN extracted.ret = {id \in FileKeys : MatchingEntries(id) # {}}
    /\ \A id \in DOMAIN extracted.ret :
         extracted.ret[id] = archive.entries[Last(MatchingEntries(id))].Content

\* An extraction in which the README is found behind another requested file
\* and under a name of another letter case, next to an unmatched entry.
C18_Witness ==
  /\ extracted.mode = "files"
  /\ Len(archive.entries) = 3
  /\ archive.entries[1].Name = ValuesPath
  /\ archive.entries[2].Name = ChartYamlPath
  /\ archive.entries[3].Name = ReadmeLowerPath
  /\ DOMAIN extracted.ret = {"values", "readme"}
  /\ extracted.ret["readme"] = "R2"

\* ------------------------------------------------------------------------
\* Icon tasks.
\* ------------------------------------------------------------------------

TaskNames == {"a", "x%2Fa"}

\* The entries of the tarballs of the task, in the order they are stored.
TaskEntrySeq ==
  <<[Name |-> ReadmePath, Typeflag |-> "reg", Content |-> "R1"],
    [Name |-> ValuesPath, Typeflag |-> "reg", Content |-> "V"],
    [Name |-> SchemaPath, Typeflag |-> "reg", Content |-> "S"],
    [Name |-> CustomFilePath, Typeflag |-> "reg", Content |-> "X"]>>

\* The tarballs a chart repository serves: any of the entries left out.
TaskArchives ==
  {[entries |-> SelectSeq(TaskEntrySeq, LAMBDA e : e \in kept), damaged |-> d] :
     kept \in {K \in SUBSET {TaskEntrySeq[n] : n \in 1..Len(TaskEntrySeq)} :
                 Cardinality(K) <= MaxEntries},
     d \in BOOLEAN}

\* The responses to the GET of a tarball: a transport error, or a status with
\* a body that is a gzipped tar stream or is not gzip.
TarballResponses ==
  {[kind |-> "neterr"]} \cup
  {[kind |-> "http", status |-> st, body |-> b] :
     st \in {StatusOK, 404},
     b \in {[gzip |-> FALSE]} \cup {[gzip |-> TRUE, tar |-> a] : a \in TaskArchives}}

\* The tasks: a chart version, and the rows an earlier sync left for it.
Tasks ==
  UNION {{[name |-> n, cv |-> [Version |-> "1", Digest |-> digestOf(n, "1")],
           rows |-> rs] :
            rs \in {{}} \cup
                   {{[ID |-> chartFilesID(n, [Version |-> "1"]), Digest |-> d]} :
                      d \in {digestOf(n, "1"), StaleDigest}}} :
         n \in TaskNames}

\* files[key] of a Go map: the zero value when the key is missing.
lookup(m, key) == IF key \in DOMAIN m THEN m[key] ELSE ""

\* A fetch that fails when the README is not in the archive.
HelmRepoFetchFilesStrict(name, res) ==
  IF res.kind = "neterr" THEN [err |-> TRUE]
  ELSE IF ~res.body.gzip THEN [err |-> TRUE]
  ELSE LET x == extractFilesFromTarball(filenames(name), res.body.tar)
       IN IF x.err \/ "readme" \notin DOMAIN x.ret THEN [err |-> TRUE]
          ELSE [err |-> FALSE,
                files |-> [values |-> lookup(x.ret, "values"),
                           readme |-> lookup(x.ret, "readme"),
                           schema |-> lookup(x.ret, "schema")]]

\* utils.go:213-271, HelmRepo.FetchFiles: a transport error, a body that is
\* not gzip and a damaged tar stream are errors; the status is not read. The
\* result has the three keys, empty for a file the archive lacks.
HelmRepoFetchFiles(name, res) ==
  IF res.kind = "neterr" THEN [err |-> TRUE]
  ELSE IF ~res.body.gzip THEN [err |-> TRUE]
  ELSE LET x == extractFilesFromTarball(filenames(name), res.body.tar)
       IN IF x.err THEN [err |-> TRUE]
          ELSE [err |-> FALSE,
                files |-> [values |-> lookup(x.ret, "values"),
                           readme |-> lookup(x.ret, "readme"),
                           schema |-> lookup(x.ret, "schema")]]

\* utils.go:162-209, HelmRepo.FetchAllFilesFromDirectory: the same errors;
\* the result is what the prefix extraction returned.
HelmRepoFetchAllFilesFromDirectory(name, res, directoryName) ==
  IF res.kind = "neterr" THEN [err |-> TRUE]
  ELSE IF ~res.body.gzip THEN [err |-> TRUE]
  ELSE LET x == extractDirectoryFilesFromTarball(
                  directoryPath(name, directoryName), res.body.tar)
       IN IF x.err THEN [err |-> TRUE]
          ELSE [err |-> FALSE, files |-> x.ret]

\* utils.go:787-801: the record passed to insertFiles. FetchFiles returns
\* all three keys, so the "not found" branches copy an empty string.
chartFilesRecord(id, digest, fs, custom) ==
  [ID |-> id, Digest |-> digest, CustomFiles |-> custom,
   Readme |-> lookup(fs, "readme"),
   Values |-> lookup(fs, "values"),
   Schema |-> lookup(fs, "schema")]

\* The state in which a worker has received a file-import job.
InitTask ==
  /\ repositories = <<>>
  /\ responses = <<>>
  /\ ChecksumIdle
  /\ IndexIdle
  /\ TarIdle
  /\ charts = <<>>
  /\ store = {}
  /\ ImporterIdle
  /\ task \in Tasks
  /\ tarballs \in [files : TarballResponses, directory : TarballResponses]
  /\ tpc = "gate"
  /\ tfiles = None
  /\ customFiles = None
  /\ inserted = <<>>
  /\ terr = "none"

\* utils.go:764-774: the gate.
TaskFilesExist ==
  /\ tpc = "gate"
  /\ IF filesExist(task.rows, chartFilesID(task.name, task.cv), task.cv.Digest)
     THEN tpc' = "done" /\ terr' = "nil"
     ELSE tpc' = "fetch" /\ terr' = terr
  /\ UNCHANGED <<task, tarballs, tfiles, customFiles, inserted>>
  /\ UNCHANGED nonTaskVars

\* utils.go:776-779: repo.FetchFiles
TaskFetchFiles ==
  /\ tpc = "fetch"
  /\ tfiles' = HelmRepoFetchFiles(task.name, tarballs.files)
  /\ IF tfiles'.err
     THEN tpc' = "done" /\ terr' = "fetchErr"
     ELSE tpc' = "dir" /\ terr' = terr
  /\ UNCHANGED <<task, tarballs, customFiles, inserted>>
  /\ UNCHANGED nonTaskVars

\* utils.go:781-784: repo.FetchAllFilesFromDirectory
TaskFetchAllFilesFromDirectory ==
  /\ tpc = "dir"
  /\ customFiles' = HelmRepoFetchAllFilesFromDirectory(
                      task.name, tarballs.directory, customDirectoryName)
  /\ IF customFiles'.err
     THEN tpc' = "done" /\ terr' = "dirErr"
     ELSE tpc' = "insert" /\ terr' = terr
  /\ UNCHANGED <<task, tarballs, tfiles, inserted>>
  /\ UNCHANGED nonTaskVars

\* utils.go:787-806: the record is built and insertFiles is called; the task
\* returns what insertFiles returns.
TaskInsertFiles ==
  /\ tpc = "insert"
  /\ inserted' = Append(inserted,
       chartFilesRecord(chartFilesID(task.name, task.cv), task.cv.Digest,
                        tfiles.files, customFiles.files))
  /\ \E ok \in BOOLEAN : terr' = IF ok THEN "nil" ELSE "insertErr"
  /\ tpc' = "done"
  /\ UNCHANGED <<task, tarballs, tfiles, customFiles>>
  /\ UNCHANGED nonTaskVars

NextTask ==
  \/ TaskFilesExist
  \/ TaskFetchFiles
  \/ TaskFetchAllFilesFromDirectory
  \/ TaskInsertFiles

SpecTask == InitTask /\ [][NextTask]_vars

\* The fetch ended in a network failure or a status that is not a success.
Failed(res) == res.kind = "neterr" \/ res.status # StatusOK

\* C14: every fetch that ends in a network failure or a non-success status
\* yields an error to its caller, in doReq, in the icon fetch and in the two
\* tarball fetches; so a file-import task with such a tarball GET never
\* reaches insertFiles.
C14_FailedFetchIsError ==
  /\ \A res \in Responses : Failed(res) => doReq(res).err
  /\ \A res \in IconResponses, stored \in BOOLEAN :
       Failed(res) => fetchAndImportIcon("icon", res, stored).o \in {"fetchErr", "statusErr"}
  /\ (tfiles # None /\ Failed(tarballs.files)) => tfiles.err
  /\ (customFiles # None /\ Failed(tarballs.directory)) => customFiles.err
  /\ (tfiles # None /\ Failed(tarballs.files)) => inserted = <<>>
  /\ (customFiles # None /\ Failed(tarballs.directory)) => inserted = <<>>

\* The response carries status 200 and a readable gzipped tar stream.
Served(res) ==
  /\ res.kind = "http"
  /\ res.status = StatusOK
  /\ res.body.gzip
  /\ ~res.body.tar.damaged

\* The content the archive of a response holds under a path, "" if none.
ContentAt(res, path) ==
  LET es == res.body.tar.entries
      at == {n \in 1..Len(es) : es[n].Name = path}
  IN IF at = {} THEN "" ELSE es[CHOOSE n \in at : TRUE].Content

\* C17: when the gate is open and both tarballs are served, the finished task
\* has called insertFiles exactly once, with the ID "{chartID}-{version}",
\* the digest of the version and the content of each of README, values and
\* schema, empty for a file the archive lacks; the only error the task can
\* return is the one of insertFiles.
C17_MissingFilesAreEmpty ==
  ( /\ tpc = "done"
    /\ ~(\E row \in task.rows : row.Digest = task.cv.Digest)
    /\ Served(tarballs.files)
    /\ Served(tarballs.directory) ) =>
  /\ Len(inserted) = 1
  /\ inserted[1].ID = repoName \o "/" \o task.name \o "-" \o task.cv.Version
  /\ inserted[1].Digest = task.cv.Digest
  /\ inserted[1].Readme = ContentAt(tarballs.files, <<"a", "/", "README", ".md">>)
  /\ inserted[1].Values = ContentAt(tarballs.files, <<"a", "/", "values", ".yaml">>)
  /\ inserted[1].Schema =
       ContentAt(tarballs.files, <<"a", "/", "values", ".schema", ".json">>)
  /\ terr \in {"nil", "insertErr"}

\* A finished task whose archive held only values.yaml: the record was
\* inserted with an empty README and an empty schema, and the task returned
\* no error.
C17_Witness ==
  /\ tpc = "done"
  /\ terr = "nil"
  /\ Served(tarballs.files)
  /\ Len(tarballs.files.body.tar.entries) = 1
  /\ Len(inserted) = 1
  /\ inserted[1].Values = "V"
  /\ inserted[1].Readme = ""
  /\ inserted[1].Schema = ""

\* ------------------------------------------------------------------------
\* The two queues of fetchFiles.
\* ------------------------------------------------------------------------

\* The step is the start of a fetchFiles call, which makes new queues.
NewQueues == pc \in {"idle", "returned"} /\ pc' = "icons"

\* C19: within a fetchFiles call each queue is closed once, in a step that
\* finds it open, and only after every task of its phase has been enqueued;
\* nothing is sent on a closed queue; the icon queue is closed before the
\* first file-import task is enqueued; a worker leaves a queue only when it
\* is closed and empty; fetchFiles returns with both queues closed.
C19_QueuesClosedOnce ==
  [][~NewQueues =>
      /\ iconsClosed' # iconsClosed =>
           /\ ~iconsClosed
           /\ \A c \in DOMAIN charts : iconStatus[c] # "none"
           /\ \A j \in JobsOf(charts) : status[j] = "none"
      /\ filesClosed' # filesClosed =>
           /\ ~filesClosed
           /\ \A j \in JobsOf(charts) : status[j] # "none"
      /\ iconsClosed => Len(iconJobs') <= Len(iconJobs)
      /\ filesClosed => Len(chartFilesJobs') <= Len(chartFilesJobs)
      /\ Len(chartFilesJobs') > Len(chartFilesJobs) => iconsClosed
      /\ \A w \in Workers :
           /\ (wpc[w] = "icons" /\ wpc'[w] = "files") =>
                iconsClosed /\ iconJobs = <<>>
           /\ (wpc[w] = "files" /\ wpc'[w] = "done") =>
                filesClosed /\ chartFilesJobs = <<>>
      /\ pc' = "returned" => iconsClosed' /\ filesClosed']_vars

\* A returned call that enqueued more file-import tasks than the queue
\* holds, with both queues closed and every task enqueued.
C19_Witness ==
  /\ pc = "returned"
  /\ iconsClosed
  /\ filesClosed
  /\ Cardinality(JobsOf(charts)) > numWorkers
  /\ \A j \in JobsOf(charts) : status[j] \notin {"none", "queued", "running"}

\* ------------------------------------------------------------------------
\* Progress of fetchFiles.
\* ------------------------------------------------------------------------

\* The steps of a fetchFiles call that has started.
ProducerStep ==
  \/ EnqueueIcon
  \/ CloseIcons
  \/ EnqueueLatest
  \/ LatestDone
  \/ EnqueueRest
  \/ CloseFiles
  \/ Return

\* Progress depends neither on the rows an earlier sync left nor on the
\* names of the charts: the fair specifications start from an empty store,
\* with charts drawn from one name without icon and one with.
ProgressNames == {"a-1", "b"}

InitProgress ==
  /\ Init
  /\ store = {}
  /\ \A c \in DOMAIN charts : charts[c].Name \in ProgressNames

\* The Go scheduler runs every goroutine that can take a step: the producer
\* goroutine and each worker goroutine are weakly fair. Whether fetchFiles
\* is called again is left to the caller.
SpecFair ==
  /\ InitProgress
  /\ [][Next]_vars
  /\ WF_vars(ProducerStep)
  /\ \A w \in Workers : WF_vars(Worker(w))

\* The worker whose task may block.
BlockedWorker == CHOOSE w \in Workers : TRUE

\* As SpecFair, but one worker may stop for ever at any point, inside a task
\* whose request hangs: only the other goroutines are fair.
SpecBlocked ==
  /\ InitProgress
  /\ [][Next]_vars
  /\ WF_vars(ProducerStep)
  /\ \A w \in Workers \ {BlockedWorker} : WF_vars(Worker(w))

\* Every task of the call has been enqueued and has ended.
AllTasksEnded ==
  /\ \A c \in DOMAIN charts : iconStatus[c] \in IconFinal
  /\ \A j \in JobsOf(charts) : status[j] \in FileFinal

\* C20: under fair scheduling, with tasks that terminate, every fetchFiles
\* call that has started returns, with every task enqueued and ended and
\* both queues closed, for any number of charts and versions.
C20_FetchFilesTerminates ==
  (pc = "icons") ~> (pc = "returned" /\ AllTasksEnded /\ iconsClosed /\ filesClosed)

\* A call that has returned after more file-import tasks than the queue
\* holds.
C20_Witness ==
  /\ pc = "returned"
  /\ AllTasksEnded
  /\ Cardinality(JobsOf(charts)) > numWorkers
  /\ wg = 0

\* Every task of the call has been enqueued and has ended, but for the one
\* the blocked worker holds.
OthersEnded ==
  /\ \A c \in DOMAIN charts :
       iconStatus[c] \in IconFinal \/ wjob[BlockedWorker] = [c |-> c, v |-> 0]
  /\ \A j \in JobsOf(charts) :
       status[j] \in FileFinal \/ wjob[BlockedWorker] = j

\* The workers that hold a task.
Holders(job) == {w \in Workers : wjob[w] = job}

\* C16: a task that has been dequeued and has not ended is held by exactly
\* one worker, and whenever a fetchFiles call has started, every task of
\* both phases other than the one a blocked worker holds is eventually
\* enqueued, dequeued and ended by the workers that are not blocked.
C16_OthersKeepDequeuing ==
  /\ [](/\ \A c \in DOMAIN charts :
             iconStatus[c] = "running" =>
               Cardinality(Holders([c |-> c, v |-> 0])) = 1
        /\ \A j \in JobsOf(charts) :
             status[j] = "running" => Cardinality(Holders(j)) = 1)
  /\ (pc = "icons") ~> OthersEnded

\* The blocked worker is still inside an icon task while every file-import
\* task of the call has ended.
C16_Witness ==
  /\ wpc[BlockedWorker] = "icon"
  /\ pc = "wait"
  /\ Cardinality(JobsOf(charts)) > numWorkers
  /\ \A j \in JobsOf(charts) : status[j] \in FileFinal

\* ------------------------------------------------------------------------
\* Execution of the tasks.
\* ------------------------------------------------------------------------

\* The place of a task status in the life of a task.
Stage(st) ==
  CASE st = "none" -> 0
    [] st = "queued" -> 1
    [] st = "running" -> 2
    [] OTHER -> 3

\* No element occurs twice in the sequence.
NoRepeat(q) == \A m, n \in 1..Len(q) : m # n => q[m] # q[n]

\* No task is in a queue twice, held by two workers or executed twice, and
\* after the return every task has been executed once.
ExecutedAtMostOnce ==
  /\ NoRepeat(iconJobs)
  /\ NoRepeat(chartFilesJobs)
  /\ NoRepeat(sent)
  /\ \A c \in DOMAIN charts :
       /\ iconCalls[c].attempts <= 1
       /\ Cardinality(Holders([c |-> c, v |-> 0])) <= 1
       /\ pc = "returned" => iconCalls[c].attempts = 1
  /\ \A j \in JobsOf(charts) :
       /\ calls[j].exist <= 1
       /\ Cardinality(Holders(j)) <= 1
       /\ pc = "returned" => calls[j].exist = 1

\* C21: within a fetchFiles call every task is enqueued once, dequeued once,
\* held by at most one worker and executed at most once; a task that has
\* ended, with or without an error, is not touched again; when the call has
\* returned every icon task and every file-import task has been executed
\* exactly once. Stated of every step: of the state it leads to and of the
\* change it makes.
C21_ExactlyOnce ==
  [][/\ ExecutedAtMostOnce'
     /\ ~NewQueues =>
          /\ \A c \in DOMAIN charts :
               /\ Stage(iconStatus[c]) <= Stage(iconStatus'[c])
               /\ Stage(iconStatus'[c]) <= Stage(iconStatus[c]) + 1
               /\ iconStatus[c] \in IconFinal => iconStatus'[c] = iconStatus[c]
          /\ \A j \in JobsOf(charts) :
               /\ Stage(status[j]) <= Stage(status'[j])
               /\ Stage(status'[j]) <= Stage(status[j]) + 1
               /\ status[j] \in FileFinal =>
                    status'[j] = status[j] /\ calls'[j] = calls[j]]_vars

\* A returned call with more file-import tasks than the queue holds, one of
\* which failed: every task was executed once.
C21_Witness ==
  /\ pc = "returned"
  /\ Cardinality(JobsOf(charts)) > numWorkers
  /\ \E j \in JobsOf(charts) : status[j] \in FileErrors
  /\ \A j \in JobsOf(charts) : calls[j].exist = 1
  /\ \A c \in DOMAIN charts : iconCalls[c].attempts = 1

\* ------------------------------------------------------------------------
\* The result of Charts.
\* ------------------------------------------------------------------------

\* The index is not YAML, or it is and every entry of it (there may be none)
\* is flagged deprecated.
NothingToList ==
  \/ ~index.parsed
  \/ \A k \in DOMAIN index.entries : FlaggedDeprecated(k)

\* C22: for an index that cannot be parsed, is empty or has only deprecated
\* entries, Charts does not crash and returns an error with an empty list;
\* whenever Charts returns no error its list is not empty.
C22_EmptyListingIsError ==
  /\ NothingToList =>
       /\ listing.stage # "panic"
       /\ listing.stage = "returned" =>
            listing.err # "nil" /\ listing.charts = <<>>
  /\ (listing.stage = "returned" /\ listing.err = "nil") =>
       listing.charts # <<>>

\* Charts has returned its error for an index with entries, all deprecated.
C22_Witness ==
  /\ listing.stage = "returned"
  /\ index.parsed
  /\ DOMAIN index.entries = IndexKeys
  /\ \A k \in DOMAIN index.entries : FlaggedDeprecated(k)
  /\ listing.err = "no charts"
  /\ listing.charts = <<>>

\* C23: for every index, also one with an empty version list, the listing
\* does not crash, and every chart of the list chartsFromIndex returns has at
\* least one version.
C23_ListingNeverCrashes ==
  /\ listing.stage # "panic"
  /\ listing.stage = "listed" =>
       \A n \in 1..Len(listing.charts) : Len(listing.charts[n].ChartVersions) >= 1

\* ------------------------------------------------------------------------
\* The stored tags of the registry source.
\* ------------------------------------------------------------------------

\* The names of the repositories list.
RepositoryNames == {repositories[k] : k \in 1..Len(repositories)}

\* C24: of the steps of a Checksum call, only the return of a digest changes
\* the stored tags, so a call that returns an error leaves them as they were
\* before the call; the return of a digest stores exactly one tag listing
\* per name of the repositories list, the one parsed from the response for
\* that name.
C24_TagsReplacedOnSuccess ==
  [][(ckpc = "loop" \/ ckpc' = "loop") =>
       IF ckpc' = "done" /\ ~ret'.err
       THEN /\ DOMAIN tags' = RepositoryNames
            /\ \A n \in RepositoryNames :
                 tags'[n] = jsonUnmarshal(responses[n].body).appTags
       ELSE tags' = tags]_vars

\* A call on a source with stored tags returned an error after it had parsed
\* the listing of another name: the stored tags are the earlier ones.
C24_Witness ==
  /\ ckpc = "done"
  /\ ret.err
  /\ DOMAIN localTags = {"n2"}
  /\ DOMAIN tags = {"n1"}
  /\ tags["n1"].Tags = <<"0">>

====
